---- MODULE Spec2Model ----
(***************************************************************************)
(* Model of streamlit_app.py, the "Simple Retirement Planning Agent".      *)
(*                                                                         *)
(* The script's numbers are Python ints and Python floats.  A float is an  *)
(* IEEE-754 binary64 value, and every float operation of the script        *)
(* (+, -, *, /, math.pow, round, sum, <) is modelled by computing the      *)
(* exact result on arbitrary-precision naturals and rounding it to 53      *)
(* bits, ties to even, with gradual underflow.  Overflow to infinity is    *)
(* outside the modelled range: every value the model builds is < 2^1024.   *)
(***************************************************************************)
EXTENDS Integers, Sequences, FiniteSets, TLC

(***************************************************************************)
(* Arbitrary-precision naturals: little-endian sequences of limbs in       *)
(* 0 .. Base-1 without leading zero limbs; <<>> is zero.  TLC's integers   *)
(* are 32 bits wide and a binary64 significand is 53.                      *)
(***************************************************************************)
LimbBits == 7 + 7

Base == 2^LimbBits

\* Limb i of a, 0 beyond its length.  (TLC caches an operator's argument once
\* it is evaluated, but not when its first use is as the function of an
\* application a[i]: Len(a) goes first.)
BLimb(a, i) == IF i >= 1 /\ i <= Len(a) THEN a[i] ELSE 0

min(x, y) == IF x <= y THEN x ELSE y

max(x, y) == IF x >= y THEN x ELSE y

At(xs, i) == IF Len(xs) >= i THEN xs[i] ELSE xs[i]

RECURSIVE BTop(_, _)
BTop(a, i) == IF i = 0 THEN 0 ELSE IF BLimb(a, i) # 0 THEN i ELSE BTop(a, i - 1)

BNorm(a) == SubSeq(a, 1, BTop(a, Len(a)))

\* Recursion runs in blocks of Block steps, so that its depth stays small.
Block == 4 * 4

\* Columns i..hi with carry c in: the carry out and acc with the limbs appended.
RECURSIVE BCarryBlock(_, _, _, _, _)
BCarryBlock(cols, i, hi, c, acc) ==
    IF i > hi THEN [c |-> c, acc |-> acc]
    ELSE BCarryBlock(cols, i + 1, hi, (BLimb(cols, i) + c) \div Base,
                     Append(acc, (BLimb(cols, i) + c) % Base))

RECURSIVE BCarryFrom(_, _, _)
BCarryFrom(cols, i, st) ==
    IF st.c = 0 /\ i > Len(cols) THEN st.acc
    ELSE BCarryFrom(cols, i + Block,
                    BCarryBlock(cols, i, min(i + Block - 1, max(i, Len(cols))), st.c, st.acc))

\* Columns (any integers whose running sum stays non-negative) to limbs.
BCarry(cols) == BNorm(BCarryFrom(cols, 1, [c |-> 0, acc |-> <<>>]))

BMaxLen(a, b) == IF Len(a) >= Len(b) THEN Len(a) ELSE Len(b)

BFromInt(n) == BCarry(<<n>>)

RECURSIVE BToIntFrom(_, _)
BToIntFrom(a, i) == IF i > Len(a) THEN 0 ELSE BLimb(a, i) + Base * BToIntFrom(a, i + 1)

\* Only for naturals below 2^31.
BToInt(a) == BToIntFrom(a, 1)

BAdd(a, b) == BCarry([i \in 1..BMaxLen(a, b) |-> BLimb(a, i) + BLimb(b, i)])

\* a - b for a >= b (the borrow is the floor division's negative carry).
BSub(a, b) == BCarry([i \in 1..BMaxLen(a, b) |-> BLimb(a, i) - BLimb(b, i)])

RECURSIVE BCmpFrom(_, _, _)
BCmpFrom(a, b, i) ==
    IF i = 0 THEN 0
    ELSE IF BLimb(a, i) > BLimb(b, i) THEN 1
    ELSE IF BLimb(a, i) < BLimb(b, i) THEN -1
    ELSE BCmpFrom(a, b, i - 1)

BCmp(a, b) ==
    IF Len(a) > Len(b) THEN 1
    ELSE IF Len(a) < Len(b) THEN -1
    ELSE BCmpFrom(a, b, Len(a))

BMulSmall(a, k) == BCarry([i \in 1..Len(a) |-> BLimb(a, i) * k])

BShlLimbs(a, q) ==
    IF Len(a) = 0 THEN a
    ELSE [i \in 1..(Len(a) + q) |-> IF i <= q THEN 0 ELSE BLimb(a, i - q)]

RECURSIVE BMulFrom(_, _, _, _)
BMulFrom(a, b, j, acc) ==
    IF j > Len(b) THEN acc
    ELSE BMulFrom(a, b, j + 1, BAdd(acc, BShlLimbs(BMulSmall(a, BLimb(b, j)), j - 1)))

BMul(a, b) == IF Len(a) >= Len(b) THEN BMulFrom(a, b, 1, <<>>) ELSE BMulFrom(b, a, 1, <<>>)

\* a * 2^k
BShl(a, k) == BShlLimbs(BMulSmall(a, 2^(k % LimbBits)), k \div LimbBits)

BShrAt(a, q, r) ==
    IF Len(a) <= q THEN <<>>
    ELSE BNorm([i \in 1..(Len(a) - q) |->
             (BLimb(a, i + q) \div 2^r) + (BLimb(a, i + q + 1) % 2^r) * 2^(LimbBits - r)])

\* floor(a / 2^k)
BShr(a, k) == BShrAt(a, k \div LimbBits, k % LimbBits)

\* bit i of a, bit 0 the lowest
BBit(a, i) == (BLimb(a, (i \div LimbBits) + 1) \div 2^(i % LimbBits)) % 2

\* a mod 2^k = 0
BLowZero(a, k) ==
    /\ \A i \in 1..(k \div LimbBits) : BLimb(a, i) = 0
    /\ BLimb(a, (k \div LimbBits) + 1) % 2^(k % LimbBits) = 0

SmallBitLen(x) == CHOOSE k \in 0..LimbBits : (k = 0 \/ 2^(k - 1) <= x) /\ x < 2^k

BBitLen(a) == IF Len(a) = 0 THEN 0 ELSE (Len(a) - 1) * LimbBits + SmallBitLen(BLimb(a, Len(a)))

SmallTz(x) == CHOOSE k \in 0..LimbBits : x % 2^(k + 1) # 0

BTzAt(a, q) == (q - 1) * LimbBits + SmallTz(BLimb(a, q))

\* trailing zero bits of a > 0
BTz(a) == BTzAt(a, CHOOSE i \in 1..Len(a) : BLimb(a, i) # 0 /\ \A j \in 1..(i - 1) : BLimb(a, j) = 0)

\* Binary long division of n by d > 0, bits i down to lo of n, from the
\* quotient q and remainder r of the bits above.  (An operator's arguments
\* are evaluated once; a LET definition is evaluated at each use, hence the
\* Step operators.)
RECURSIVE BDivBlock(_, _, _, _, _, _)
BDivStep(n, d, i, lo, q2, r2) ==
    IF Len(q2) >= 0 /\ BCmp(r2, d) >= 0
    THEN BDivBlock(n, d, i - 1, lo, BAdd(q2, <<1>>), BSub(r2, d))
    ELSE BDivBlock(n, d, i - 1, lo, q2, r2)

BDivBlock(n, d, i, lo, q, r) ==
    IF i < lo THEN [q |-> q, r |-> r]
    ELSE BDivStep(n, d, i, lo, BMulSmall(q, 2), BAdd(BMulSmall(r, 2), BFromInt(BBit(n, i))))

RECURSIVE BDivFrom(_, _, _, _)
BDivFrom(n, d, i, st) ==
    IF Len(st.q) >= 0 /\ i < 0 THEN st
    ELSE BDivFrom(n, d, i - Block,
                  BDivBlock(n, d, i, IF i >= Block THEN i - Block + 1 ELSE 0, st.q, st.r))

\* Short division by a one-limb d, limbs i down to 1 of n, remainder r above.
RECURSIVE BDivSmallFrom(_, _, _, _, _)
BDivSmallFrom(n, d, i, r, acc) ==
    IF i = 0 THEN [q |-> BNorm(acc), r |-> BFromInt(r)]
    ELSE BDivSmallFrom(n, d, i - 1, (r * Base + BLimb(n, i)) % d,
                       <<(r * Base + BLimb(n, i)) \div d>> \o acc)

\* [q |-> floor(n / d), r |-> n mod d] for d > 0: the bits of n above the
\* lowest BBitLen(n) - BBitLen(d) + 1 are below d and start the remainder.
BDivMod(n, d) ==
    IF Len(d) = 1 THEN BDivSmallFrom(n, BLimb(d, 1), Len(n), 0, <<>>)
    ELSE IF BBitLen(n) < BBitLen(d) THEN [q |-> <<>>, r |-> n]
    ELSE BDivFrom(n, d, BBitLen(n) - BBitLen(d),
                  [q |-> <<>>, r |-> BShr(n, BBitLen(n) - BBitLen(d) + 1)])

(***************************************************************************)
(* binary64.  A float is [s, m, e] with value s * m * 2^e, m an odd        *)
(* natural of at most Prec bits (or zero, written Zero), so that equal     *)
(* values are equal records.                                               *)
(***************************************************************************)
Prec == 52 + 1

MinExp == 0 - 1074

Zero == [s |-> 1, m |-> <<>>, e |-> 0]

CanonAt(s, m, e, tz) == [s |-> s, m |-> BShr(m, tz), e |-> e + tz]

Canon(s, m, e) == IF Len(m) = 0 THEN Zero ELSE CanonAt(s, m, e, BTz(m))

FRoundUp(s, q, e, up) == Canon(s, IF up THEN BAdd(q, <<1>>) ELSE q, e)

FRoundQ(s, n, e, sticky, drop, q) ==
    FRoundUp(s, q, e + drop,
             /\ BBit(n, drop - 1) = 1
             /\ (sticky \/ ~BLowZero(n, drop - 1) \/ BBit(q, 0) = 1))

FRoundAt(s, n, e, sticky, drop) ==
    IF drop <= 0 THEN Canon(s, n, e) ELSE FRoundQ(s, n, e, sticky, drop, BShr(n, drop))

\* The binary64 nearest s * (n + t) * 2^e, ties to even, where 0 <= t < 1
\* and sticky says that t > 0: drop the bits beyond Prec, and those below
\* the least subnormal 2^MinExp.
FRound(s, n, e, sticky) == FRoundAt(s, n, e, sticky, max(BBitLen(n) - Prec, MinExp - e))

FromInt(n) == IF n >= 0 THEN Canon(1, BFromInt(n), 0) ELSE Canon(-1, BFromInt(-n), 0)

\* Compare |a| with |b|: -1, 0 or 1.
FCmpMag(a, b) ==
    IF Len(a.m) = 0 \/ Len(b.m) = 0
    THEN (IF Len(a.m) # 0 THEN 1 ELSE IF Len(b.m) # 0 THEN -1 ELSE 0)
    ELSE LET ta == BBitLen(a.m) + a.e
             tb == BBitLen(b.m) + b.e
             e0 == min(a.e, b.e)
         IN  IF ta > tb THEN 1
             ELSE IF ta < tb THEN -1
             ELSE BCmp(BShl(a.m, a.e - e0), BShl(b.m, b.e - e0))

FSign(a) == IF Len(a.m) = 0 THEN 0 ELSE a.s

FCmp(a, b) ==
    IF FSign(a) # FSign(b) THEN (IF FSign(a) > FSign(b) THEN 1 ELSE -1)
    ELSE FSign(a) * FCmpMag(a, b)

FLt(a, b) == FCmp(a, b) < 0

FLe(a, b) == FCmp(a, b) <= 0

FNeg(a) == IF Len(a.m) = 0 THEN a ELSE [a EXCEPT !.s = 0 - a.s]

FAddAt(a, b, e0, na, nb) ==
    IF a.s = b.s THEN FRound(a.s, BAdd(na, nb), e0, FALSE)
    ELSE IF BCmp(na, nb) = 0 THEN Zero
    ELSE IF BCmp(na, nb) > 0 THEN FRound(a.s, BSub(na, nb), e0, FALSE)
    ELSE FRound(b.s, BSub(nb, na), e0, FALSE)

FAdd(a, b) ==
    IF Len(a.m) = 0 THEN b
    ELSE IF Len(b.m) = 0 THEN a
    ELSE FAddAt(a, b, min(a.e, b.e),
                BShl(a.m, a.e - min(a.e, b.e)), BShl(b.m, b.e - min(a.e, b.e)))

FSub(a, b) == FAdd(a, FNeg(b))

FMul(a, b) ==
    IF Len(a.m) = 0 \/ Len(b.m) = 0 THEN Zero
    ELSE FRound(a.s * b.s, BMul(a.m, b.m), a.e + b.e, FALSE)

FDivAt(s, qr, e) == FRound(s, qr.q, e, Len(qr.r) # 0)

\* a / b for b # 0: a quotient of at least 55 bits and whether it is inexact.
FDivShift(a, b) == max(0, 55 + BBitLen(b.m) - BBitLen(a.m))

FDiv(a, b) ==
    IF Len(a.m) = 0 THEN Zero
    ELSE FDivAt(a.s * b.s, BDivMod(BShl(a.m, FDivShift(a, b)), b.m), a.e - b.e - FDivShift(a, b))

\* <<math.pow(x, 1), ..., math.pow(x, n)>> for a float x > 0 and n >= 1, out
\* holding the first k - 1 and p = x.m^k: each the correctly rounded power
\* (the C library's pow is exact where the power is a float, and within an
\* ulp of it elsewhere).
RECURSIVE pow_table_from(_, _, _, _, _)
pow_table_from(x, n, k, p, out) ==
    IF Len(p) = 0 \/ Len(out) >= n THEN out
    ELSE pow_table_from(x, n, k + 1, BMul(p, x.m), Append(out, FRound(1, p, x.e * k, FALSE)))

pow_table(x, n) == pow_table_from(x, n, 1, x.m, <<>>)

\* math.pow(x, n) for a float x >= 0 and an int n >= 0
pow(x, n) ==
    IF n = 0 THEN FromInt(1)
    ELSE IF Len(x.m) = 0 THEN Zero
    ELSE At(pow_table(x, n), n)

round_at(x, q, up) == BToInt(q) + (IF up THEN 1 ELSE 0)

\* round(x) of a float x >= 0 below 2^31: the nearest int, ties to even.
round(x) ==
    IF Len(x.m) = 0 THEN 0
    ELSE IF x.e >= 0 THEN BToInt(BShl(x.m, x.e))
    ELSE round_at(x, BShr(x.m, 0 - x.e),
                  /\ BBit(x.m, (0 - x.e) - 1) = 1
                  /\ (~BLowZero(x.m, (0 - x.e) - 1) \/ BBit(BShr(x.m, 0 - x.e), 0) = 1))

\* The float literal n / d, for a decimal literal's digits n over d = 10^k.
Dec(n, d) == FDiv(FromInt(n), FromInt(d))

(***************************************************************************)
(* sum() over floats.  CPython up to 3.11 adds left to right; from 3.12 on *)
(* it adds with Neumaier's compensation and adds the compensation last.    *)
(***************************************************************************)
FAbsGe(a, b) == FCmpMag(a, b) >= 0

RECURSIVE sum_plain_from(_, _, _)
sum_plain_from(xs, i, acc) ==
    IF acc.s = 0 \/ i > Len(xs) THEN acc
    ELSE sum_plain_from(xs, i + 1, FAdd(acc, At(xs, i)))

sum_plain(xs) == sum_plain_from(xs, 1, Zero)

RECURSIVE sum_compensated_from(_, _, _, _)
sum_compensated_step(xs, i, f, c, x, t) ==
    sum_compensated_from(xs, i + 1, t,
        FAdd(c, IF FAbsGe(f, x) THEN FAdd(FSub(f, t), x) ELSE FAdd(FSub(x, t), f)))

sum_compensated_from(xs, i, f, c) ==
    IF f.s = 0 \/ c.s = 0 \/ i > Len(xs)
    THEN (IF Len(c.m) # 0 THEN FAdd(f, c) ELSE f)
    ELSE sum_compensated_step(xs, i, f, c, At(xs, i), FAdd(f, At(xs, i)))

sum_compensated(xs) == sum_compensated_from(xs, 1, Zero, Zero)

\* sum started at 1 instead of 0.
sum_started_at_one(build, xs) ==
    IF build = "plain" THEN sum_plain(<<FromInt(1)>> \o xs)
    ELSE sum_compensated(<<FromInt(1)>> \o xs)

PySums == {"plain", "compensated"}

sum(build, xs) == IF build = "plain" THEN sum_plain(xs) ELSE sum_compensated(xs)

(***************************************************************************)
(* The helper functions of the script.                                     *)
(***************************************************************************)
None == <<>>

Some(v) == <<v>>

\* Line 59.
monthly_rate(annual_return) == FDiv(FDiv(annual_return, FromInt(100)), FromInt(12))

\* growth with the monthly rate taken off instead of added.
growth_shrinking(annual_return, months) ==
    pow_table(FSub(FromInt(1), monthly_rate(annual_return)), months)

\* pow(1 + r, k) for k = 1 .. months, the powers lines 61, 63 and 120 use.
growth(annual_return, months) == pow_table(FAdd(FromInt(1), monthly_rate(annual_return)), months)

\* pow(1 + r, k) read from the table pw; pow(x, 0) is 1.0.
growth_at(pw, k) == IF k = 0 THEN FromInt(1) ELSE At(pw, k)

\* Lines 62-63.
RECURSIVE project_savings_loop(_, _, _, _, _)
project_savings_loop(monthly_contribution, pw, months, m, fv) ==
    IF fv.s = 0 \/ m > months THEN fv
    ELSE project_savings_loop(monthly_contribution, pw, months, m + 1,
             FAdd(fv, FMul(monthly_contribution, growth_at(pw, months - m + 1))))

\* project_savings_from with the loop of line 62 started at month 2.
project_savings_from_month_2(current_savings, monthly_contribution, months, pw) ==
    project_savings_loop(monthly_contribution, pw, months, 2,
        FMul(current_savings, growth_at(pw, months)))

\* Lines 61-64.
project_savings_from(current_savings, monthly_contribution, months, pw) ==
    project_savings_loop(monthly_contribution, pw, months, 1,
        FMul(current_savings, growth_at(pw, months)))

\* Lines 58-64.
project_savings(current_savings, monthly_contribution, years, annual_return) ==
    project_savings_from(current_savings, monthly_contribution, years * 12,
        growth(annual_return, years * 12))

\* Line 120, the generator's floats in order.
future_factor_terms(months, pw) ==
    SubSeq([m \in 1..months |-> growth_at(pw, months - m + 1)], 1, months)

(***************************************************************************)
(* The texts the helpers return.  The module is ASCII: the em dash, the en *)
(* dash, the arrow and the typographic apostrophe of the source texts are  *)
(* written "--", "-", "->" and "'".                                        *)
(***************************************************************************)
EmployerMatchAdvice ==
    "401(k) -- contribute at least enough to get your employer match. Consider a Roth IRA for tax-free withdrawals."

SepIraAdvice == "SEP IRA or Solo 401(k) -- great for business owners."

RothIraAdvice == "Roth IRA (if eligible). If not, consider Traditional IRA or brokerage."

TraditionalIraAdvice == "Traditional IRA or taxable brokerage account."

GenericGuidance ==
    "Try to save 10-15% of your income. If unsure, start with what you can and increase over time."

\* recommend_account with the income rule tried first.
recommend_account_income_first(employment, has_401k, income) ==
    IF income # None /\ income[1] >= 145000 THEN TraditionalIraAdvice
    ELSE IF employment = "Employed" /\ has_401k THEN EmployerMatchAdvice
    ELSE IF employment = "Self-Employed" THEN SepIraAdvice
    ELSE RothIraAdvice

\* Lines 15-22.  income is None or Some(n).
recommend_account(employment, has_401k, income) ==
    IF employment = "Employed" /\ has_401k THEN EmployerMatchAdvice
    ELSE IF employment = "Self-Employed" THEN SepIraAdvice
    ELSE IF income = None \/ income[1] < 145000 THEN RothIraAdvice
    ELSE TraditionalIraAdvice

\* base_stock with each bracket closed at its upper end.
base_stock_inclusive(age) ==
    IF age <= 30 THEN 90
    ELSE IF age <= 40 THEN 85
    ELSE IF age <= 50 THEN 75
    ELSE IF age <= 60 THEN 65
    ELSE 50

\* Lines 25-34.
base_stock(age) ==
    IF age < 30 THEN 90
    ELSE IF age < 40 THEN 85
    ELSE IF age < 50 THEN 75
    ELSE IF age < 60 THEN 65
    ELSE 50

\* stock without the bounds 95 and 30.
stock_unbounded(base, risk) ==
    IF risk = "High" THEN base + 10
    ELSE IF risk = "Low" THEN base - 20
    ELSE base

\* Lines 35-40.
stock(base, risk) ==
    IF risk = "High" THEN min(95, base + 10)
    ELSE IF risk = "Low" THEN max(30, base - 20)
    ELSE base

\* Lines 24-42: the pair (stock, bond).
recommend_allocation(age, risk) ==
    <<stock(base_stock(age), risk), 100 - stock(base_stock(age), risk)>>

\* monthly_10 cut down to whole dollars instead of rounded.
monthly_10_truncated(income) == (income * 10) \div 1200

\* Lines 47 and 48: int * float converts the int, 0.10 and 0.15 are the
\* floats nearest to 1/10 and 15/100.
monthly_10(income) == round(FDiv(FMul(FromInt(income), Dec(10, 100)), FromInt(12)))

monthly_15(income) == round(FDiv(FMul(FromInt(income), Dec(15, 100)), FromInt(12)))

\* Line 49, the f-string.
RangeGuidance(low, high) ==
    "Goal: 10-15% of income -> about $" \o ToString(low) \o "/mo to $" \o ToString(high) \o "/mo"

\* Lines 44-49.  income is None or Some(n).
contribution_guidance(income) ==
    IF income = None THEN GenericGuidance
    ELSE RangeGuidance(monthly_10(income[1]), monthly_15(income[1]))

\* Lines 51-56.
explain_risk(risk) ==
    IF risk = "Low" THEN "Low risk: more bonds. Smaller swings, slower growth."
    ELSE IF risk = "High" THEN "High risk: more stocks. Bigger swings, higher growth potential."
    ELSE "Medium risk: balance of stocks and bonds."

(***************************************************************************)
(* The state of a session.  Streamlit runs the script from top to bottom   *)
(* on every interaction; a widget returns the value the user left it with, *)
(* and a button returns True only in the run that its click started.       *)
(* plan and calc hold what the last run wrote under each button (None when *)
(* that run did not write it), py_sum is the sum() of the Python build the *)
(* session runs on, and call is a direct call of one helper function.      *)
(***************************************************************************)
VARIABLES age, retire_age, employment, income_input, access_401k, risk,
          current_savings, monthly_contribution, expected_return, goal,
          py_sum, plan, calc, call

personal == <<age, retire_age, employment, income_input, access_401k, risk>>

calculator == <<current_savings, monthly_contribution, expected_return, goal>>

vars == <<personal, calculator, py_sum, plan, calc, call>>

\* Line 70.
MinAge == 18

MaxAge == 100

DefaultAge == 30

\* Line 71.
DefaultRetireAge == 65

\* Line 72, the first option being the default.
Employments == {"Employed", "Self-Employed", "Not Working"}

\* Line 73.
DefaultIncome == 80000

\* Line 77.
Risks == {"Low", "Medium", "High"}

\* Line 71: the widget is made anew whenever min_value = age + 1 changes,
\* with value 65.  Streamlit raises when that value is below min_value (or
\* min_value is above max_value) and the script stops there: None.
retire_age_widget(a) ==
    IF a + 1 <= DefaultRetireAge /\ a + 1 <= MaxAge THEN Some(DefaultRetireAge) ELSE None

\* income without "or None".
income_kept == Some(income_input)

\* Line 73: "or None" turns the widget's 0 into None.
income == IF income_input = 0 THEN None ELSE Some(income_input)

\* Lines 74-76.
has_401k == employment = "Employed" /\ access_401k = "Yes"

\* The script reached its buttons: line 71 did not raise.
Rendered == retire_age # None

\* Lines 101-104.
DefaultSavings == FromInt(10000)

DefaultContribution == FromInt(500)

DefaultReturn == FromInt(6)

DefaultGoal == FromInt(1000000)

NoCall == [fn |-> "", args |-> <<>>, result |-> None]

\* Lines 72-77 at their defaults.
PlanDefaults ==
    /\ employment = "Employed"
    /\ income_input = DefaultIncome
    /\ access_401k = "Yes"
    /\ risk = "Low"

\* Lines 70-104 at their defaults, nothing written under either button.
Defaults ==
    /\ age = DefaultAge
    /\ retire_age = retire_age_widget(DefaultAge)
    /\ PlanDefaults
    /\ current_savings = DefaultSavings
    /\ monthly_contribution = DefaultContribution
    /\ expected_return = DefaultReturn
    /\ goal = DefaultGoal
    /\ plan = None
    /\ calc = None

\* The first run of the script in a session, on either Python build.
Init == Defaults /\ py_sum \in PySums /\ call = NoCall

\* A run that no button started writes neither output.
Rerun == plan' = None /\ calc' = None /\ UNCHANGED <<py_sum, call>>

(***************************************************************************)
(* The values the user gives the widgets.                                  *)
(***************************************************************************)
\* The longest horizon, in years, that a projection is computed for.
MaxYears == 2

AgeInputs == {18, 29, 30, 59, 64, 65}

IncomeInputs == {0, 60, 80000, 144999, 145000, 200000}

RetireAgeInputs(a) ==
    {v \in (a + 1)..MaxAge : v - a <= MaxYears \/ v = DefaultRetireAge}

\* Dollars and cents, as the widgets' step of 0.01 gives them.
SavingsInputs == {FromInt(0), FromInt(10000)}

ContributionInputs == {FromInt(0), FromInt(500)}

ReturnInputs == {FromInt(0), FromInt(6), FromInt(15)}

GoalInputs == {FromInt(10000), Dec(2345678, 100), FromInt(1000000)}

(***************************************************************************)
(* Lines 70-77: the user changes a widget and the script runs again.       *)
(***************************************************************************)
\* Line 70.  When line 71 raises, the widgets below it are not made in
\* that run and Streamlit forgets their values.
SetAge(a) ==
    /\ a # age
    /\ age' = a
    /\ retire_age' = retire_age_widget(a)
    /\ IF retire_age_widget(a) = None
       THEN /\ employment' = "Employed"
            /\ income_input' = DefaultIncome
            /\ access_401k' = "Yes"
            /\ risk' = "Low"
            /\ current_savings' = DefaultSavings
            /\ monthly_contribution' = DefaultContribution
            /\ expected_return' = DefaultReturn
            /\ goal' = DefaultGoal
       ELSE UNCHANGED <<employment, income_input, access_401k, risk, calculator>>
    /\ Rerun

\* Line 71.
SetRetireAge(v) ==
    /\ Rendered
    /\ Some(v) # retire_age
    /\ retire_age' = Some(v)
    /\ UNCHANGED <<age, employment, income_input, access_401k, risk, calculator>>
    /\ Rerun

\* Line 72.  The radio of line 76 exists only while Employed, and starts at
\* its first option.
SetEmployment(e) ==
    /\ Rendered
    /\ e # employment
    /\ employment' = e
    /\ access_401k' = "Yes"
    /\ UNCHANGED <<age, retire_age, income_input, risk, calculator>>
    /\ Rerun

\* Line 73.
SetIncome(n) ==
    /\ Rendered
    /\ n # income_input
    /\ income_input' = n
    /\ UNCHANGED <<age, retire_age, employment, access_401k, risk, calculator>>
    /\ Rerun

\* Line 76.
SetAccess401k(v) ==
    /\ Rendered
    /\ employment = "Employed"
    /\ v # access_401k
    /\ access_401k' = v
    /\ UNCHANGED <<age, retire_age, employment, income_input, risk, calculator>>
    /\ Rerun

\* Line 77.
SetRisk(k) ==
    /\ Rendered
    /\ k # risk
    /\ risk' = k
    /\ UNCHANGED <<age, retire_age, employment, income_input, access_401k, calculator>>
    /\ Rerun

\* Line 101.
SetCurrentSavings(v) ==
    /\ Rendered
    /\ v # current_savings
    /\ current_savings' = v
    /\ UNCHANGED <<personal, monthly_contribution, expected_return, goal>>
    /\ Rerun

\* Line 102.
SetMonthlyContribution(v) ==
    /\ Rendered
    /\ v # monthly_contribution
    /\ monthly_contribution' = v
    /\ UNCHANGED <<personal, current_savings, expected_return, goal>>
    /\ Rerun

\* Line 103.
SetExpectedReturn(v) ==
    /\ Rendered
    /\ v # expected_return
    /\ expected_return' = v
    /\ UNCHANGED <<personal, current_savings, monthly_contribution, goal>>
    /\ Rerun

\* Line 104.
SetGoal(v) ==
    /\ Rendered
    /\ v # goal
    /\ goal' = v
    /\ UNCHANGED <<personal, current_savings, monthly_contribution, expected_return>>
    /\ Rerun

(***************************************************************************)
(* Lines 82-94: "Generate Retirement Plan".                                *)
(***************************************************************************)
GenerateRetirementPlan ==
    /\ Rendered
    /\ plan' = Some([acct |-> recommend_account(employment, has_401k, income),
                     stock |-> recommend_allocation(age, risk)[1],
                     bond |-> recommend_allocation(age, risk)[2],
                     contrib |-> contribution_guidance(income),
                     risk_text |-> explain_risk(risk)])
    /\ calc' = None
    /\ UNCHANGED <<personal, calculator, py_sum, call>>

(***************************************************************************)
(* Lines 106-124: "Calculate Savings Projection".  What a run wrote is a   *)
(* record: its outcome, the steps it took in order (log), and the values   *)
(* it computed (None for one it did not compute).                          *)
(***************************************************************************)
\* Line 109.
invalid_horizon ==
    [outcome |-> "error", log |-> <<"error">>,
     projected |-> None, shortfall |-> None, future_factor |-> None, needed_extra |-> None]

\* Line 124.
on_track(projected) ==
    [outcome |-> "on_track", log |-> <<"project_savings", "success">>,
     projected |-> Some(projected), shortfall |-> None, future_factor |-> None,
     needed_extra |-> None]

\* Lines 121-122.  Python raises ZeroDivisionError on a zero divisor.
needed_extra(projected, shortfall, future_factor) ==
    IF Len(future_factor.m) = 0
    THEN [outcome |-> "ZeroDivisionError",
          log |-> <<"project_savings", "shortfall", "future_factor">>,
          projected |-> Some(projected), shortfall |-> Some(shortfall),
          future_factor |-> Some(future_factor), needed_extra |-> None]
    ELSE [outcome |-> "shortfall",
          log |-> <<"project_savings", "shortfall", "future_factor", "needed_extra">>,
          projected |-> Some(projected), shortfall |-> Some(shortfall),
          future_factor |-> Some(future_factor),
          needed_extra |-> Some(FDiv(shortfall, future_factor))]

\* below_goal with <= for <.
at_or_below_goal(projected, savings_goal) == FLe(projected, savings_goal)

\* Line 114.
below_goal(projected, savings_goal) == FLt(projected, savings_goal)

\* Lines 114-124, pw holding the powers of lines 118-120.
after_projection(build, projected, savings_goal, months, pw) ==
    IF below_goal(projected, savings_goal)
    THEN needed_extra(projected, FSub(savings_goal, projected),
                      sum(build, future_factor_terms(months, pw)))
    ELSE on_track(projected)

\* Lines 111-124.  The pow calls of lines 61, 63 and 120 have the same
\* arguments and are computed once, as pw.
with_horizon(build, savings, contribution, savings_goal, months, pw) ==
    after_projection(build, project_savings_from(savings, contribution, months, pw),
                     savings_goal, months, pw)

\* horizon_rejected with < for <=.
horizon_negative(years) == years < 0

\* Line 108.
horizon_rejected(years) == years <= 0

\* Lines 107-124.
calculate_savings_projection(build, years, savings, contribution, annual_return, savings_goal) ==
    IF horizon_rejected(years) THEN invalid_horizon
    ELSE with_horizon(build, savings, contribution, savings_goal, years * 12,
                      growth(annual_return, years * 12))

\* Line 107.
years == retire_age[1] - age

CalculateSavingsProjection ==
    /\ Rendered
    /\ years <= MaxYears
    /\ calc' = Some(calculate_savings_projection(py_sum, years, current_savings,
                        monthly_contribution, expected_return, goal))
    /\ plan' = None
    /\ UNCHANGED <<personal, calculator, py_sum, call>>

(***************************************************************************)
(* A session of the personal-information part and its button.              *)
(***************************************************************************)
NextPlan ==
    \/ \E a \in AgeInputs : SetAge(a)
    \/ \E e \in Employments : SetEmployment(e)
    \/ \E n \in IncomeInputs : SetIncome(n)
    \/ \E v \in {"Yes", "No"} : SetAccess401k(v)
    \/ \E k \in Risks : SetRisk(k)
    \/ GenerateRetirementPlan

SpecPlan == Init /\ [][NextPlan]_vars

(***************************************************************************)
(* A session of the savings calculator and its button.                     *)
(***************************************************************************)
NextCalc ==
    \/ \E v \in RetireAgeInputs(age) : SetRetireAge(v)
    \/ \E v \in SavingsInputs : SetCurrentSavings(v)
    \/ \E v \in ContributionInputs : SetMonthlyContribution(v)
    \/ \E v \in ReturnInputs : SetExpectedReturn(v)
    \/ \E v \in GoalInputs : SetGoal(v)
    \/ CalculateSavingsProjection

SpecCalc == Init /\ [][NextCalc]_vars

(***************************************************************************)
(* The handler of lines 106-124 on its own: the button clicked with any    *)
(* two ages in age and retire_age, whatever line 71 lets the user enter.   *)
(***************************************************************************)
HandlerAges == 39..41

InitHandler ==
    /\ age \in HandlerAges
    /\ retire_age \in {Some(v) : v \in HandlerAges}
    /\ PlanDefaults
    /\ current_savings \in SavingsInputs
    /\ monthly_contribution = DefaultContribution
    /\ expected_return = DefaultReturn
    /\ goal \in GoalInputs
    /\ py_sum \in PySums
    /\ plan = None
    /\ calc = None
    /\ call = NoCall

SpecHandler == InitHandler /\ [][CalculateSavingsProjection]_vars

(***************************************************************************)
(* Direct calls of the helper functions: call holds the function, its      *)
(* arguments and, once it has returned, its result.  None of the three     *)
(* functions called uses sum(), and py_sum stays at one build.             *)
(***************************************************************************)
Calling(fn, args) == [fn |-> fn, args |-> args, result |-> None]

Return(fn, result) ==
    /\ call.fn = fn
    /\ call.result = None
    /\ call' = [call EXCEPT !.result = Some(result)]
    /\ UNCHANGED <<personal, calculator, py_sum, plan, calc>>

\* recommend_allocation(age, risk) for every age of line 70 and every risk
\* of line 77, and one risk that is none of them.
RiskValues == Risks \cup {"Balanced"}

InitAllocation ==
    /\ Defaults
    /\ py_sum = "plain"
    /\ call \in {Calling("recommend_allocation", <<a, k>>) : a \in MinAge..MaxAge, k \in RiskValues}

ReturnAllocation ==
    Return("recommend_allocation", recommend_allocation(call.args[1], call.args[2]))

SpecAllocation == InitAllocation /\ [][ReturnAllocation]_vars

\* contribution_guidance(income) for no income and for known incomes.
GuidanceIncomes == (1..240) \cup {1000 * k : k \in 1..200}

InitGuidance ==
    /\ Defaults
    /\ py_sum = "plain"
    /\ call \in {Calling("contribution_guidance", <<i>>) :
                    i \in {None} \cup {Some(n) : n \in GuidanceIncomes}}

ReturnGuidance == Return("contribution_guidance", contribution_guidance(call.args[1]))

SpecGuidance == InitGuidance /\ [][ReturnGuidance]_vars

\* project_savings(current_savings, monthly_contribution, years, annual_return).
TwoTo53 == [s |-> 1, m |-> <<1>>, e |-> 53]

ProjectionSavings == {FromInt(0), FromInt(10000), TwoTo53}

ProjectionContributions == {FromInt(0), Dec(10, 100), FromInt(1), FromInt(500)}

InitProjection ==
    /\ Defaults
    /\ py_sum = "plain"
    /\ call \in {Calling("project_savings", <<s, m, y, r>>) :
                    s \in ProjectionSavings, m \in ProjectionContributions,
                    y \in 1..MaxYears, r \in ReturnInputs}

ReturnProjection ==
    Return("project_savings",
           project_savings(call.args[1], call.args[2], call.args[3], call.args[4]))

SpecProjection == InitProjection /\ [][ReturnProjection]_vars

(***************************************************************************)
(* The allocation table.                                                   *)
(***************************************************************************)
AllocationReturned == call.fn = "recommend_allocation" /\ call.result # None

StockOf(a, k) == recommend_allocation(a, k)[1]

\* C1: for every age in 18..100 and every risk in {Low, Medium, High},
\* recommend_allocation returns (stock, bond) with stock + bond = 100 and
\* 30 <= stock <= 95, and at every age the stock share of High is at least
\* that of Medium, which is at least that of Low.
C1_AllocationInvariants ==
    AllocationReturned /\ call.args[2] \in Risks =>
        /\ call.result[1][1] + call.result[1][2] = 100
        /\ 30 <= call.result[1][1]
        /\ call.result[1][1] <= 95
        /\ StockOf(call.args[1], "High") >= StockOf(call.args[1], "Medium")
        /\ StockOf(call.args[1], "Medium") >= StockOf(call.args[1], "Low")

\* The call for age 29 and High has returned 95 / 5: the upper bound is met.
C1_Witness ==
    AllocationReturned /\ call.args = <<29, "High">> /\ call.result = Some(<<95, 5>>)

\* The stock share of the table: rows Low, any other risk, High; columns the
\* age brackets -29, 30-39, 40-49, 50-59, 60-.
TableColumn(a) ==
    IF a <= 29 THEN 1 ELSE IF a <= 39 THEN 2 ELSE IF a <= 49 THEN 3 ELSE IF a <= 59 THEN 4 ELSE 5

TableRow(k) ==
    IF k = "Low" THEN <<70, 65, 55, 45, 30>>
    ELSE IF k = "High" THEN <<95, 95, 85, 75, 60>>
    ELSE <<90, 85, 75, 65, 50>>

\* C8: for every age and risk, recommend_allocation returns exactly the
\* table value: base 90 / 85 / 75 / 65 / 50 for ages under 30 / 30-39 /
\* 40-49 / 50-59 / 60 and over; min(95, base + 10) for High, max(30,
\* base - 20) for Low, base for Medium and for any other risk; bond is
\* 100 - stock.
C8_AllocationTable ==
    AllocationReturned =>
        /\ call.result[1][1] = TableRow(call.args[2])[TableColumn(call.args[1])]
        /\ call.result[1][2] = 100 - TableRow(call.args[2])[TableColumn(call.args[1])]

\* The call for age 30 and a risk that is none of the three has returned
\* the base of the second bracket.
C8_Witness ==
    AllocationReturned /\ call.args = <<30, "Balanced">> /\ call.result = Some(<<85, 15>>)

(***************************************************************************)
(* The generated plan.                                                     *)
(***************************************************************************)
PlanWritten == Rendered /\ plan # None

\* The rules of the account recommendation, read off the widgets.
Rule1 == employment = "Employed" /\ access_401k = "Yes"

Rule2 == employment = "Self-Employed"

Rule3 == income_input = 0 \/ income_input < 145000

\* C2: recommend_account returns the advice of the first matching rule in
\* the order (1) Employed with 401(k) access, (2) Self-Employed, (3) income
\* unknown or below 145000, (4) otherwise; Employed with 401(k) access gets
\* the employer-match advice whatever the income, also at 145000 and above,
\* and income exactly 145000 with no earlier rule matching gets the advice
\* of rule 4.  The four advices are different texts.
C2_FirstMatchingRule ==
    /\ Cardinality({EmployerMatchAdvice, SepIraAdvice, RothIraAdvice, TraditionalIraAdvice}) = 4
    /\ PlanWritten =>
        /\ Rule1 => plan[1].acct = EmployerMatchAdvice
        /\ ~Rule1 /\ Rule2 => plan[1].acct = SepIraAdvice
        /\ ~Rule1 /\ ~Rule2 /\ Rule3 => plan[1].acct = RothIraAdvice
        /\ ~Rule1 /\ ~Rule2 /\ ~Rule3 => plan[1].acct = TraditionalIraAdvice
        /\ ~Rule1 /\ ~Rule2 /\ income_input = 145000 => plan[1].acct = TraditionalIraAdvice

\* A plan for an employee with 401(k) access and an income of 200000 gives
\* the employer-match advice.
C2_Witness ==
    /\ PlanWritten
    /\ Rule1
    /\ income_input = 200000
    /\ plan[1].acct = EmployerMatchAdvice

\* C3: contribution guidance for an income of 0, or for no income, is the
\* generic "save 10-15% of your income" text and never a computed range.
C3_GenericGuidanceWithoutIncome ==
    /\ contribution_guidance(None) = GenericGuidance
    /\ PlanWritten /\ income_input = 0 => plan[1].contrib = GenericGuidance

\* A plan was generated with 0 in the income field and shows the generic
\* text.
C3_Witness == PlanWritten /\ income_input = 0 /\ plan[1].contrib = GenericGuidance

(***************************************************************************)
(* The contribution range.                                                 *)
(***************************************************************************)
GuidanceReturned ==
    call.fn = "contribution_guidance" /\ call.result # None /\ call.args[1] # None

\* The whole numbers nearest to n / d: one, or two when n / d is halfway.
Nearest(n, d) == {(2 * n + d) \div (2 * d), (2 * n + d - 1) \div (2 * d)}

\* C9: for every known, positive income the guidance is a range whose low
\* figure is income * 0.10 / 12 rounded to the nearest whole dollar and
\* whose high figure is income * 0.15 / 12 rounded to the nearest whole
\* dollar, with low <= high; for 80000 it reads "$667/mo to $1000/mo".
C9_ContributionRange ==
    GuidanceReturned =>
        /\ \E low \in Nearest(call.args[1][1], 120) : \E high \in Nearest(call.args[1][1], 80) :
              low <= high /\ call.result[1] = RangeGuidance(low, high)
        /\ call.args[1][1] = 80000 =>
              call.result[1] = "Goal: 10-15% of income -> about $667/mo to $1000/mo"

\* The call for 80000 has returned the range 667 to 1000.
C9_Witness ==
    /\ GuidanceReturned
    /\ call.args[1][1] = 80000
    /\ call.result[1] = RangeGuidance(667, 1000)

(***************************************************************************)
(* The savings calculation.                                                *)
(***************************************************************************)
CalcWritten == Rendered /\ calc # None

Solved == CalcWritten /\ calc[1].needed_extra # None

\* The steps a run took that belong to the projection or the solve.
ProjectionSteps(log) ==
    {i \in DOMAIN log : log[i] \in {"project_savings", "shortfall", "future_factor", "needed_extra"}}

\* C4: when the horizon retire_age - age is not positive (e.g. age 40 and
\* retirement age 39), a "Calculate Savings Projection" run reports the input
\* error and runs neither project_savings nor the shortfall solve: the run
\* produces no projected value.
C4_NoProjectionWithoutHorizon ==
    CalcWritten /\ retire_age[1] - age <= 0 =>
        /\ calc[1].outcome = "error"
        /\ ProjectionSteps(calc[1].log) = {}
        /\ calc[1].projected = None
        /\ calc[1].future_factor = None
        /\ calc[1].needed_extra = None

\* The button was clicked with age 40 and retirement age 39 and the run
\* reported the error.
C4_Witness ==
    /\ CalcWritten
    /\ age = 40
    /\ retire_age = Some(39)
    /\ calc[1].outcome = "error"

\* C10: in every "Calculate Savings Projection" run the shortfall solve runs
\* only after project_savings has returned and only when projected < goal;
\* when it runs, the factor F satisfies F >= months >= 12 > 0, so that
\* shortfall / F divides by no zero and the extra monthly amount is > 0; when
\* projected >= goal the run reports "on track" and computes no extra amount.
C10_SolveOnlyBelowGoal ==
    CalcWritten =>
        /\ calc[1].outcome \in {"shortfall", "on_track"}
        /\ calc[1].projected # None
        /\ calc[1].log[1] = "project_savings"
        /\ Solved =>
            /\ calc[1].outcome = "shortfall"
            /\ calc[1].log = <<"project_savings", "shortfall", "future_factor", "needed_extra">>
            /\ FLt(calc[1].projected[1], goal)
            /\ years * 12 >= 12
            /\ FLe(FromInt(years * 12), calc[1].future_factor[1])
            /\ FSign(calc[1].future_factor[1]) = 1
            /\ FSign(calc[1].needed_extra[1]) = 1
        /\ FLt(calc[1].projected[1], goal) => Solved
        /\ ~FLt(calc[1].projected[1], goal) =>
            /\ calc[1].outcome = "on_track"
            /\ calc[1].future_factor = None
            /\ calc[1].needed_extra = None

\* A run at 6% fell short of the goal and computed a positive extra amount
\* from a factor above the number of months.
C10_Witness ==
    /\ Solved
    /\ expected_return = FromInt(6)
    /\ FLt(FromInt(years * 12), calc[1].future_factor[1])
    /\ FSign(calc[1].needed_extra[1]) = 1

\* The relative tolerance of the round trip, 1e-6.
WithinTolerance(reached, target) == FLe(FMul(target, Dec(999999, 1000000)), reached)

\* C6: when projected = project_savings(current, M, years, rate) < goal and
\* extra = (goal - projected) / F, F the sum over m = 1 .. months of
\* (1 + r)^(months - m + 1), the projection of M + extra reaches the goal:
\* project_savings(current, M + extra, years, rate) >= goal, up to a relative
\* tolerance of 1e-6.
C6_ShortfallRoundTrip ==
    Solved =>
        WithinTolerance(
            project_savings(current_savings,
                            FAdd(monthly_contribution, calc[1].needed_extra[1]),
                            years, expected_return),
            goal)

\* A run at 15% from no savings fell short of the goal of a million and
\* solved for the extra amount.
C6_Witness ==
    /\ Solved
    /\ expected_return = FromInt(15)
    /\ current_savings = FromInt(0)
    /\ goal = FromInt(1000000)
    /\ FLt(calc[1].projected[1], goal)

(***************************************************************************)
(* The projection function.                                                *)
(***************************************************************************)
ProjectionReturned == call.fn = "project_savings" /\ call.result # None

\* Exact arithmetic on non-negative dyadic numbers [s, m, e], m of any size.
ExactSumAt(a, b, e0) == Canon(1, BAdd(BShl(a.m, a.e - e0), BShl(b.m, b.e - e0)), e0)

ExactSum(a, b) == ExactSumAt(a, b, min(a.e, b.e))

ExactTimes(a, k) == Canon(1, BMul(a.m, BFromInt(k)), a.e)

ExactGapAt(a, b, e0) ==
    IF FCmp(a, b) >= 0
    THEN Canon(1, BSub(BShl(a.m, a.e - e0), BShl(b.m, b.e - e0)), e0)
    ELSE Canon(1, BSub(BShl(b.m, b.e - e0), BShl(a.m, a.e - e0)), e0)

\* |a - b|
ExactGap(a, b) == ExactGapAt(a, b, min(a.e, b.e))

\* a * 2^k
Scaled(a, k) == IF Len(a.m) = 0 THEN a ELSE [a EXCEPT !.e = a.e + k]

\* S + M * Y * 12 as a real number.
Total(args) == ExactSum(args[1], ExactTimes(args[2], args[3] * 12))

IsWhole(x) == Len(x.m) = 0 \/ x.e >= 0

Above(xs, x) == {y \in xs : FLt(x, y)}

NotBelow(args, value) == FLe(value, project_savings(args[1], args[2], args[3], args[4]))

\* C7: with all arguments non-negative and years a positive integer,
\* increasing any one of current savings, monthly contribution, years or
\* annual return while the other three stay fixed never decreases the value
\* project_savings returns.
C7_MonotoneProjection ==
    ProjectionReturned =>
        /\ \A s \in Above(ProjectionSavings, call.args[1]) :
              NotBelow([call.args EXCEPT ![1] = s], call.result[1])
        /\ \A c \in Above(ProjectionContributions, call.args[2]) :
              NotBelow([call.args EXCEPT ![2] = c], call.result[1])
        /\ \A y \in (call.args[3] + 1)..MaxYears :
              NotBelow([call.args EXCEPT ![3] = y], call.result[1])
        /\ \A r \in Above(ReturnInputs, call.args[4]) :
              NotBelow([call.args EXCEPT ![4] = r], call.result[1])

\* project_savings(10000, 500, 1, 6) has returned, and it is below both
\* project_savings(10000, 500, 1, 15) and project_savings(10000, 500, 2, 6).
C7_Witness ==
    /\ ProjectionReturned
    /\ call.args = <<FromInt(10000), FromInt(500), 1, FromInt(6)>>
    /\ FLt(call.result[1], project_savings(FromInt(10000), FromInt(500), 1, FromInt(15)))
    /\ FLt(call.result[1], project_savings(FromInt(10000), FromInt(500), 2, FromInt(6)))

====
